---------------------------- MODULE Spec2Model ----------------------------
(***************************************************************************)
(* A model of the worker pool of orrb: QueueWorkerABC / QueueExecutorABC   *)
(* (orrb/queue_executor.py) and their render specialisation                *)
(* _RemoteRendererWorker / RemoteRenderer (orrb/remote_renderer.py).       *)
(*                                                                         *)
(* Threads of the model:                                                   *)
(*   - one pool thread that calls start() and later shutdown();            *)
(*   - NCallers caller threads that call update() and                      *)
(*     render_batch_async(); both methods are plain Python attribute       *)
(*     reads and writes with no lock, so each read and each write is a     *)
(*     step of its own;                                                    *)
(*   - one thread per worker, running QueueWorkerABC.run.                  *)
(* queue.Queue is internally locked: get and put are atomic steps.         *)
(***************************************************************************)
EXTENDS Integers, Sequences, FiniteSets, TLC

\* ---- bounds of the model ------------------------------------------------
NWorkers == 2
NCallers == 2
\* update() and render_batch_async() calls made, over all caller threads
MaxCalls == 4
\* the same, when a single caller thread makes all the calls
MaxSerialCalls == 3
\* the calls made while one thread calls render_batch()
MaxSyncCalls == 2
\* the calls made in the short runs that start from either deployment
MaxShortCalls == 2
\* the calls made while a single worker serves every task
MaxSoloCalls == 4
\* the tasks submitted in the runs with fair scheduling
MaxLiveCalls == 1
\* entries of a batch, and values of an auxiliary stream
MaxBatch == 2
MaxAuxLen == 2
\* (device, port) pairs given to the renderer, characters of ORRB_MINIMAL
MaxServers == 3
MaxEnvLen == 2
\* base-2^31 digits of a batch seed
MaxDigits == 2

\* ---- program constants --------------------------------------------------
\* for i in range(10) in _RemoteRendererWorker.on_run
ConnectAttempts == 10

Workers == 1..NWorkers
Callers == 1..NCallers
\* Destination queues handed to render_batch_async: every caller thread makes
\* a Queue of its own and collects its results there (bin/benchmark.py:79-80,
\* bin/demo_keras.py:114-122).
\* RemoteRenderer.sync_queue, the queue render_batch() collects from, is one
\* more destination.
SyncQueue == 0
Dests == Callers \cup {SyncQueue}

VARIABLES
    spawns,                 \* base_config.spawn_servers and not ORRB_DETACHED
    pool,                   \* position of the thread calling start()/shutdown()
    input_queue,            \* QueueExecutorABC.input_queue: Seq of task ids
    tasks,                  \* every QueueTask created, by id (its index)
    renderer_config_stamp,  \* RemoteRenderer.renderer_config_stamp
    renderer_config,        \* RemoteRenderer.renderer_config (a value id)
    caller,                 \* per caller thread: position and locals
    n_update,               \* update() calls started
    calls_left,             \* calls the caller threads may still start
    wpc,                    \* per worker: position of its thread in run()
    should_shutdown,        \* QueueWorkerABC.should_shutdown
    server_process,         \* _RemoteRendererWorker.server_process
    client_stub,            \* _RemoteRendererWorker.client_stub is set
    worker_stamp,           \* _RemoteRendererWorker.renderer_config_stamp
    current,                \* per worker: task held by run() (0: none)
    dest_queue,             \* per destination: Seq of results put on it
    rpc_log,                \* per worker: RPCs issued, in order
    dequeue_log,            \* dequeues of input_queue, in order: the worker,
                            \* the task and the worker's stamp at that moment
    published,              \* <<version, value>> pairs written by update()
    max_returned,           \* greatest version an update() has returned with
    sync_returns,           \* returns of render_batch(), in order: the caller,
                            \* the task submitted and the result received
    call,                   \* the last application of a module-level or
                            \* construction-time function: arguments and outcome
    config_edits,           \* per configuration object: edits made in place
                            \* through mutable_renderer_config()
    stamped_edits,          \* per task: the edits its configuration object
                            \* carried when the task was built
    extra_thread,           \* per worker: position of the thread a second
                            \* start() runs on the same worker object
    popens,                 \* per worker: subprocess.Popen calls of on_run()
    orphaned,               \* per worker: running server processes whose
                            \* handle was overwritten in server_process
    task_done               \* per task: input_queue.task_done() calls made
                            \* by the worker that took the task

vars == <<spawns, pool, input_queue, tasks, renderer_config_stamp,
          renderer_config, caller, n_update, calls_left, wpc,
          should_shutdown, server_process, client_stub, worker_stamp,
          current, dest_queue, rpc_log, dequeue_log, published, max_returned,
          sync_returns, call, config_edits, stamped_edits, extra_thread,
          popens, orphaned, task_done>>

\* everything but call
renderer_vars == <<spawns, pool, input_queue, tasks, renderer_config_stamp,
                   renderer_config, caller, n_update, calls_left, wpc,
                   should_shutdown, server_process, client_stub, worker_stamp,
                   current, dest_queue, rpc_log, dequeue_log, published,
                   max_returned, sync_returns, config_edits, stamped_edits,
                   extra_thread, popens, orphaned, task_done>>

pool_vars == <<pool>>
alias_vars == <<config_edits, stamped_edits>>
restart_vars == <<extra_thread, popens, orphaned>>
ext_vars == <<alias_vars, restart_vars, task_done>>
dispatcher_vars == <<renderer_config_stamp, renderer_config, caller, n_update,
                     calls_left, published, max_returned>>
queue_vars == <<input_queue, tasks>>
worker_vars == <<wpc, should_shutdown, server_process, client_stub,
                 worker_stamp, current, dest_queue, rpc_log, dequeue_log>>

Max(a, b) == IF a >= b THEN a ELSE b

IdleCaller ==
    [pc |-> "idle", stamp |-> 0, config |-> 0, floor |-> 0, dest |-> SyncQueue,
     task |-> 0]

\* No function application recorded yet.
NoCall == [fn |-> "none"]

\* The state after RemoteRenderer.__init__: stamp 0, the loaded configuration
\* (value 0), an empty input queue, workers built but no thread started.
\* spawn is whether the workers are to start render servers of their own:
\* base_config.spawn_servers, and ORRB_DETACHED not set.
Built(calls, spawn) ==
    /\ spawns = spawn
    /\ calls_left = calls
    /\ pool = [pc |-> "new", i |-> 1]
    /\ input_queue = <<>>
    /\ tasks = <<>>
    /\ renderer_config_stamp = 0
    /\ renderer_config = 0
    /\ caller = [c \in Callers |-> IdleCaller]
    /\ n_update = 0
    /\ wpc = [w \in Workers |-> "not_started"]
    /\ should_shutdown = [w \in Workers |-> FALSE]
    /\ server_process = [w \in Workers |-> "none"]
    /\ client_stub = [w \in Workers |-> FALSE]
    /\ worker_stamp = [w \in Workers |-> 0]
    /\ current = [w \in Workers |-> 0]
    /\ dest_queue = [d \in Dests |-> <<>>]
    /\ rpc_log = [w \in Workers |-> <<>>]
    /\ dequeue_log = <<>>
    /\ published = {}
    /\ max_returned = 0
    /\ sync_returns = <<>>
    /\ call = NoCall
    /\ config_edits = <<>>
    /\ stamped_edits = <<>>
    /\ extra_thread = [w \in Workers |-> "none"]
    /\ popens = [w \in Workers |-> 0]
    /\ orphaned = [w \in Workers |-> 0]
    /\ task_done = <<>>

\* spawn_servers is True by default (RemoteRendererConfig.__init__).
Constructed(calls) == Built(calls, TRUE)

Init == Constructed(MaxCalls)

\* ---- request and response conversion ------------------------------------

\* Python dicts are functions from keys to values.
EmptyDict == [k \in {} |-> 0]

\* d[k] = v
DictSet(d, k, v) ==
    [x \in DOMAIN d \cup {k} |-> IF x = k THEN v ELSE d[x]]

\* _build_render_batch_request, line 51: (1 << 31) - 1, the largest int32.
MaxInt32 == 2147483647

\* A Python int has no fixed width. It is held as a sign and the digits of
\* its magnitude in base 1 << 31, least significant first: the value is
\* +/- (digits[1] + digits[2] * 2^31 + ...).
Digits == 0..MaxInt32

\* The Python int of a small integer k.
PyInt(k) == [neg |-> k < 0, digits |-> <<IF k < 0 THEN -k ELSE k>>]

\* The remainder of C's % (sign of the dividend) in place of Python's.
TruncateSeed_SignOfDividend(seed) ==
    LET low == IF seed.digits = <<>> THEN 0 ELSE seed.digits[1]
    IN  IF seed.neg THEN -low ELSE low

\* _build_render_batch_request, line 51: seed % (1 << 31). Python's % takes
\* the sign of the divisor: the lowest digit of a non-negative seed, and
\* what is missing from 1 << 31 to the lowest digit of a negative one.
TruncateSeed(seed) ==
    LET low == IF seed.digits = <<>> THEN 0 ELSE seed.digits[1]
    IN  IF ~seed.neg \/ low = 0 THEN low ELSE (MaxInt32 - low) + 1

\* _build_render_batch_request(workload, config): the request and the batch
\* size. The two tests of lines 50 and 54 are independent ifs, so a workload
\* with both keys sets batch_seed and then use_entry_seeds = True. It raises
\* the UnboundLocalError of line 58 when the workload has neither 'seed' nor
\* 'seeds' (use_entry_seeds was never assigned), and the IndexError of line
\* 68 when 'seeds' is shorter than 'qpos'. An entry has a seed only when
\* line 68 stored one.
BuildRenderBatchRequest(workload, config) ==
    LET has_seed == "seed" \in DOMAIN workload
        has_seeds == "seeds" \in DOMAIN workload
        qpos == workload["qpos"]
    IN  IF ~has_seed /\ ~has_seeds
        THEN [raised |-> TRUE]
        ELSE IF has_seeds /\ Len(workload["seeds"]) < Len(qpos)
        THEN [raised |-> TRUE]
        ELSE [raised |-> FALSE,
              batch_size |-> Len(qpos),
              request |->
                [batch_seed |-> IF has_seed THEN TruncateSeed(workload["seed"])
                                            ELSE 0,
                 use_entry_seeds |-> has_seeds,
                 render_depth |-> config.render_depth,
                 render_normals |-> config.render_normals,
                 render_segmentation |-> config.render_segmentation,
                 entries |-> [i \in 1..Len(qpos) |->
                                IF has_seeds
                                THEN [qpos |-> qpos[i],
                                      seed |-> workload["seeds"][i]]
                                ELSE [qpos |-> qpos[i]]],
                 camera_names |-> config.camera_names]]

\* The bytes of one encoded frame: a sequence, empty when the frame is absent.
Encoded(camera, i, mode) == <<[camera |-> camera, entry |-> i, mode |-> mode]>>

\* The render server's answer to RenderBatch: per requested camera a stream
\* named after it, with one entry per request entry, in entry order; an entry
\* holds the encoded image and the encoded frame of every enabled mode.
RenderServer(request) ==
    LET Frame(on, camera, i, mode) ==
            IF on THEN Encoded(camera, i, mode) ELSE <<>>
        Stream(camera) ==
            [name |-> camera,
             entries |-> [i \in 1..Len(request.entries) |->
                [image_data |-> Encoded(camera, i, "rgb"),
                 depth_data |-> Frame(request.render_depth, camera, i, "depth"),
                 normals_data |->
                     Frame(request.render_normals, camera, i, "normals"),
                 segmentation_data |->
                     Frame(request.render_segmentation, camera, i,
                           "segmentation")]]]
    IN  [streams |-> [c \in 1..Len(request.camera_names) |->
                         Stream(request.camera_names[c])],
         auxiliary_float_streams |-> <<>>,
         auxiliary_int_streams |-> <<>>,
         auxiliary_bool_streams |-> <<>>]

\* read_rgba_image / read_depth_image / read_normals_image /
\* read_segmentation_image: the bytes decoded to an array of the mode's kind.
ReadImage(mode, data) == [array |-> mode, of |-> data[1]]

\* _convert_render_batch_response, lines 94-106: the decoded frames of the
\* entries that carry data of one kind, in entry order.
StreamDataset(entries, field, mode) ==
    LET present == SelectSeq(entries, LAMBDA e : e[field] # <<>>)
    IN  [i \in 1..Len(present) |-> ReadImage(mode, present[i][field])]

\* _convert_render_batch_response, lines 108-114: the keys of one stream;
\* the key of a mode is set only when its list is not empty.
AddStream(batch_dataset, stream) ==
    LET WithMode(d, field, mode) ==
            LET frames == StreamDataset(stream.entries, field, mode)
            IN  IF frames # <<>>
                THEN DictSet(d, stream.name \o "_" \o mode, frames)
                ELSE d
        rgb == DictSet(batch_dataset, stream.name,
                       StreamDataset(stream.entries, "image_data", "rgb"))
    IN  WithMode(WithMode(WithMode(rgb, "depth_data", "depth"),
                          "normals_data", "normals"),
                 "segmentation_data", "segmentation")

\* _convert_render_batch_response, lines 89-114: the loop over
\* response.streams.
RECURSIVE AddStreams(_, _)
AddStreams(batch_dataset, streams) ==
    IF streams = <<>> THEN batch_dataset
    ELSE AddStreams(AddStream(batch_dataset, Head(streams)), Tail(streams))

\* np.array(stream.data, dtype).reshape((batch_size, len(data) // batch_size))
Reshape(data, dtype, batch_size) ==
    LET width == Len(data) \div batch_size
    IN  [dtype |-> dtype,
         rows |-> [r \in 1..batch_size |->
                      SubSeq(data, (r - 1) * width + 1, r * width)]]

\* _add_auxiliary_stream: data_length % batch_size raises ZeroDivisionError
\* for a batch of no entries; otherwise the stream is stored when its length
\* is a multiple of the batch size and skipped with a warning when not.
\* out is the dataset so far, or the exception on its way up.
AddAuxiliaryStream(out, batch_size, stream, dtype) ==
    IF out.raised THEN out
    ELSE IF batch_size = 0 THEN [raised |-> TRUE, dataset |-> out.dataset]
    ELSE IF Len(stream.data) % batch_size = 0
    THEN [raised |-> FALSE,
          dataset |-> DictSet(out.dataset, stream.name,
                              Reshape(stream.data, dtype, batch_size))]
    ELSE out

\* _convert_render_batch_response, lines 116-123: one loop over auxiliary
\* streams of a type.
RECURSIVE AddAuxiliaryStreams(_, _, _, _)
AddAuxiliaryStreams(out, batch_size, streams, dtype) ==
    IF streams = <<>> THEN out
    ELSE AddAuxiliaryStreams(
             AddAuxiliaryStream(out, batch_size, Head(streams), dtype),
             batch_size, Tail(streams), dtype)

\* _convert_render_batch_response(response, config, batch_size): the dataset
\* returned, or raised when an exception leaves the function.
ConvertRenderBatchResponse(response, config, batch_size) ==
    LET cameras == [raised |-> FALSE,
                    dataset |-> AddStreams(EmptyDict, response.streams)]
        floats == AddAuxiliaryStreams(cameras, batch_size,
                                      response.auxiliary_float_streams, "float")
        ints == AddAuxiliaryStreams(floats, batch_size,
                                    response.auxiliary_int_streams, "int")
    IN  AddAuxiliaryStreams(ints, batch_size,
                            response.auxiliary_bool_streams, "bool")

\* The parts of a RemoteRendererConfig the conversions read.
CameraLists == {<<>>, <<"a">>, <<"a", "b">>}
Configs ==
    [camera_names : CameraLists, render_depth : BOOLEAN,
     render_normals : BOOLEAN, render_segmentation : BOOLEAN]

\* A workload of n entries with a batch seed.
Workload(n, seed) == [seed |-> PyInt(seed), qpos |-> [i \in 1..n |-> <<i>>]]

\* The auxiliary streams of one type in a response: none, or one stream of
\* any length.
AuxNames == {"x", "y"}
AuxLists ==
    {<<>>} \cup {<<[name |-> nm, data |-> [i \in 1..len |-> i]]>> :
                    nm \in AuxNames, len \in 0..MaxAuxLen}

\* The base_config the pool is built with: a RemoteRendererConfig with its
\* default modes and one camera.
BaseConfig ==
    [camera_names |-> <<"a">>, render_depth |-> FALSE,
     render_normals |-> FALSE, render_segmentation |-> FALSE]

\* dict.update: the keys of e are set in d.
DictUpdate(d, e) ==
    [k \in DOMAIN d \cup DOMAIN e |-> IF k \in DOMAIN e THEN e[k] ELSE d[k]]

\* ---- QueueExecutorABC.start / shutdown ----------------------------------

\* start(): worker_thread.start() for the next worker of the list.
StartWorker ==
    /\ pool.pc = "new"
    /\ wpc' = [wpc EXCEPT ![pool.i] = "on_run"]
    /\ pool' = IF pool.i = NWorkers THEN [pc |-> "started", i |-> 1]
                                    ELSE [pool EXCEPT !.i = @ + 1]
    /\ UNCHANGED <<ext_vars, spawns, call, sync_returns, should_shutdown, server_process,
                   client_stub, worker_stamp, current, dest_queue, rpc_log,
                   dequeue_log>>
    /\ UNCHANGED <<dispatcher_vars, queue_vars>>

\* A shutdown() that sets the flag of the first worker only.
ShutdownSignal_FirstOnly ==
    /\ pool.pc \in {"started", "signalling"}
    /\ should_shutdown' = [should_shutdown EXCEPT ![1] = TRUE]
    /\ pool' = [pc |-> "joining", i |-> 1]
    /\ UNCHANGED <<ext_vars, spawns, call, sync_returns, wpc, server_process,
                   client_stub, worker_stamp, current, dest_queue, rpc_log,
                   dequeue_log>>
    /\ UNCHANGED <<dispatcher_vars, queue_vars>>

\* shutdown(), first loop: worker.shutdown() sets the next worker's flag.
ShutdownSignal ==
    /\ pool.pc \in {"started", "signalling"}
    /\ should_shutdown' = [should_shutdown EXCEPT ![pool.i] = TRUE]
    /\ pool' = IF pool.i = NWorkers THEN [pc |-> "joining", i |-> 1]
                                    ELSE [pc |-> "signalling", i |-> pool.i + 1]
    /\ UNCHANGED <<ext_vars, spawns, call, sync_returns, wpc, server_process, client_stub,
                   worker_stamp, current, dest_queue, rpc_log, dequeue_log>>
    /\ UNCHANGED <<dispatcher_vars, queue_vars>>

\* A thread whose run() has returned or raised is dead: join() returns.
ThreadDead(w) == wpc[w] \in {"stopped", "crashed"}

\* self.worker_threads holds the threads of the latest start() only (line
\* 65 rebinds the list), so those are the threads shutdown() joins.
LatestThreadDead(w) ==
    IF extra_thread[w] = "none" THEN ThreadDead(w)
                                ELSE extra_thread[w] \in {"stopped", "crashed"}

\* shutdown(), second loop: worker_thread.join() of the next thread.
ShutdownJoin ==
    /\ pool.pc = "joining"
    /\ LatestThreadDead(pool.i)
    /\ pool' = IF pool.i = NWorkers THEN [pc |-> "returned", i |-> 1]
                                    ELSE [pool EXCEPT !.i = @ + 1]
    /\ UNCHANGED <<ext_vars, spawns, call, sync_returns, worker_vars, dispatcher_vars, queue_vars>>

\* ---- RemoteRenderer.update ----------------------------------------------

CallsLeft == calls_left > 0

\* update(), line 321, the read of self.renderer_config_stamp; the argument
\* of the k-th call is the configuration value k.
UpdateReadStamp(c) ==
    /\ caller[c].pc = "idle"
    /\ CallsLeft
    /\ n_update' = n_update + 1
    /\ calls_left' = calls_left - 1
    /\ caller' = [caller EXCEPT ![c] = [pc |-> "update_stamp",
                                        stamp |-> renderer_config_stamp,
                                        config |-> n_update + 1,
                                        floor |-> 0,
                                        dest |-> SyncQueue,
                                        task |-> 0]]
    /\ UNCHANGED <<ext_vars, spawns, call, sync_returns, pool, renderer_config_stamp, renderer_config,
                   published, max_returned>>
    /\ UNCHANGED <<queue_vars, worker_vars>>

\* A write of the stamp that also restamps the tasks already submitted.
UpdateWriteStamp_Restamps(c) ==
    /\ caller[c].pc = "update_stamp"
    /\ renderer_config_stamp' = caller[c].stamp + 1
    /\ published' = published \cup {<<caller[c].stamp + 1, caller[c].config>>}
    /\ caller' = [caller EXCEPT ![c].pc = "update_config",
                                ![c].stamp = @ + 1]
    /\ tasks' = [i \in 1..Len(tasks) |->
                    [tasks[i] EXCEPT !.stamp = caller[c].stamp + 1]]
    /\ UNCHANGED <<ext_vars, spawns, call, sync_returns, pool, renderer_config, n_update, calls_left,
                   max_returned, input_queue, dest_queue>>
    /\ UNCHANGED worker_vars

\* update(), line 321, the write of self.renderer_config_stamp.
UpdateWriteStamp(c) ==
    /\ caller[c].pc = "update_stamp"
    /\ renderer_config_stamp' = caller[c].stamp + 1
    /\ published' = published \cup {<<caller[c].stamp + 1, caller[c].config>>}
    /\ caller' = [caller EXCEPT ![c].pc = "update_config",
                                ![c].stamp = @ + 1]
    /\ UNCHANGED <<ext_vars, spawns, call, sync_returns, pool, renderer_config, n_update, calls_left,
                   max_returned>>
    /\ UNCHANGED <<queue_vars, worker_vars>>

\* update(), line 322: self.renderer_config = deepcopy(renderer_config),
\* and the return.
UpdateWriteConfig(c) ==
    /\ caller[c].pc = "update_config"
    /\ renderer_config' = caller[c].config
    /\ max_returned' = Max(max_returned, caller[c].stamp)
    /\ caller' = [caller EXCEPT ![c] = IdleCaller]
    /\ UNCHANGED <<ext_vars, spawns, call, sync_returns, pool, renderer_config_stamp, n_update, calls_left,
                   published>>
    /\ UNCHANGED <<queue_vars, worker_vars>>

\* ---- RemoteRenderer.render_batch_async ----------------------------------

\* render_batch_async(workload, destination), line 309: the read of
\* self.renderer_config_stamp.
RenderBatchAsync(c, destination) ==
    /\ caller[c].pc = "idle"
    /\ CallsLeft
    /\ calls_left' = calls_left - 1
    /\ caller' = [caller EXCEPT ![c] = [pc |-> "render_config",
                                        stamp |-> renderer_config_stamp,
                                        config |-> 0,
                                        floor |-> max_returned,
                                        dest |-> destination,
                                        task |-> 0]]

\* A caller thread calls render_batch_async with the Queue it made for itself.
RenderReadStamp(c) ==
    /\ RenderBatchAsync(c, c)
    /\ UNCHANGED <<ext_vars, spawns, call, sync_returns, pool, renderer_config_stamp, renderer_config,
                   n_update, published, max_returned>>
    /\ UNCHANGED <<queue_vars, worker_vars>>

\* render_batch_async(), line 310: the read of self.renderer_config.
RenderReadConfig(c) ==
    /\ caller[c].pc = "render_config"
    /\ caller' = [caller EXCEPT ![c].pc = "render_put",
                                ![c].config = renderer_config]
    /\ UNCHANGED <<ext_vars, spawns, call, sync_returns, pool, renderer_config_stamp, renderer_config,
                   n_update, calls_left, published, max_returned>>
    /\ UNCHANGED <<queue_vars, worker_vars>>

\* ---- RemoteRenderer.mutable_renderer_config ------------------------------

\* The edits made in place so far to configuration object o. Configuration
\* objects are named by the value they were created with: 0 is the one
\* loaded by __init__, k the deepcopy made by the k-th update().
Edits(o) == IF o \in DOMAIN config_edits THEN config_edits[o] ELSE 0

\* mutable_renderer_config(), line 291, returns self.renderer_config itself,
\* not a copy; the caller then edits the object it was handed.
MutableRendererConfig(c) ==
    /\ caller[c].pc = "idle"
    /\ CallsLeft
    /\ calls_left' = calls_left - 1
    /\ config_edits' = (renderer_config :> (Edits(renderer_config) + 1))
                           @@ config_edits
    /\ UNCHANGED <<task_done, stamped_edits, restart_vars, spawns, call, sync_returns,
                   pool, renderer_config_stamp, renderer_config, caller,
                   n_update, published, max_returned>>
    /\ UNCHANGED <<queue_vars, worker_vars>>

\* A task whose destination is the renderer's sync_queue whatever was asked.
NewTask_ToSyncQueue(c, d) ==
    [stamp |-> caller[c].stamp, config |-> caller[c].config,
     destination |-> SyncQueue, floor |-> caller[c].floor,
     workload |-> Workload(1, Len(tasks))]

\* The _WorkloadWithConfig of lines 309-311 wrapped in a QueueTask.
\* The k-th workload submitted is a batch of one entry with seed k - 1.
NewTask(c, d) ==
    [stamp |-> caller[c].stamp, config |-> caller[c].config,
     destination |-> d, floor |-> caller[c].floor,
     workload |-> Workload(1, Len(tasks))]

\* A put that places the task at the head of the input queue.
Execute_AtHead(task) ==
    /\ tasks' = Append(tasks, task)
    /\ stamped_edits' = Append(stamped_edits, Edits(task.config))
    /\ task_done' = Append(task_done, 0)
    /\ input_queue' = <<Len(tasks) + 1>> \o input_queue

\* QueueExecutorABC.execute: self.input_queue.put(QueueTask(...)).
Execute(task) ==
    /\ tasks' = Append(tasks, task)
    /\ stamped_edits' = Append(stamped_edits, Edits(task.config))
    /\ task_done' = Append(task_done, 0)
    /\ input_queue' = Append(input_queue, Len(tasks) + 1)

\* render_batch_async(), line 312: super().execute(workload_with_config,
\* destination).
RenderPut(c) ==
    /\ caller[c].pc = "render_put"
    /\ Execute(NewTask(c, caller[c].dest))
    /\ caller' = [caller EXCEPT ![c] =
                     IF caller[c].dest = SyncQueue
                     THEN [IdleCaller EXCEPT !.pc = "sync_get",
                                             !.task = Len(tasks) + 1]
                     ELSE IdleCaller]
    /\ UNCHANGED <<config_edits, restart_vars, spawns, call, sync_returns,
                   pool, renderer_config_stamp, renderer_config,
                   n_update, calls_left, published, max_returned>>
    /\ UNCHANGED worker_vars

\* ---- RemoteRenderer.execute ---------------------------------------------

\* An execute that hands the workload to the executor as the base class does.
RendererExecute_Delegates(c, destination) ==
    /\ caller[c].pc = "idle"
    /\ CallsLeft
    /\ calls_left' = calls_left - 1
    /\ Execute(NewTask(c, destination))
    /\ caller' = [caller EXCEPT ![c].pc = "assertion_error"]
    /\ UNCHANGED <<config_edits, restart_vars, spawns, call, sync_returns,
                   pool, renderer_config_stamp, renderer_config,
                   n_update, published, max_returned>>
    /\ UNCHANGED worker_vars

\* RemoteRenderer.execute(workload, destination), lines 305-306: the body
\* is assert False, so the call raises AssertionError in the calling thread
\* before anything else happens; no caller in the repository catches it.
RendererExecute(c, destination) ==
    /\ caller[c].pc = "idle"
    /\ CallsLeft
    /\ calls_left' = calls_left - 1
    /\ caller' = [caller EXCEPT ![c].pc = "assertion_error"]
    /\ UNCHANGED <<ext_vars, spawns, call, sync_returns, pool,
                   renderer_config_stamp, renderer_config, n_update,
                   published, max_returned>>
    /\ UNCHANGED <<queue_vars, worker_vars>>

\* ---- RemoteRenderer.render_batch ----------------------------------------

\* render_batch(), line 315: render_batch_async(workload, self.sync_queue).
RenderBatch(c) ==
    /\ RenderBatchAsync(c, SyncQueue)
    /\ UNCHANGED <<ext_vars, spawns, call, sync_returns, pool, renderer_config_stamp,
                   renderer_config, n_update, published, max_returned>>
    /\ UNCHANGED <<queue_vars, worker_vars>>

\* render_batch(), lines 316-318: sync_queue.get() blocks until a result is
\* there; task_done(); return result.
SyncGet(c) ==
    /\ caller[c].pc = "sync_get"
    /\ dest_queue[SyncQueue] # <<>>
    /\ sync_returns' = Append(sync_returns,
                              [caller |-> c, submitted |-> caller[c].task,
                               received |-> Head(dest_queue[SyncQueue])])
    /\ dest_queue' = [dest_queue EXCEPT ![SyncQueue] = Tail(@)]
    /\ caller' = [caller EXCEPT ![c] = IdleCaller]
    /\ UNCHANGED <<ext_vars, spawns, call, pool, renderer_config_stamp, renderer_config,
                   n_update, calls_left, published, max_returned>>
    /\ UNCHANGED <<queue_vars, wpc, should_shutdown, server_process,
                   client_stub, worker_stamp, current, rpc_log, dequeue_log>>

\* ---- _RemoteRendererWorker.on_run ---------------------------------------

\* on_run(), lines 175-183: the retry loop. first_ok is the index of the
\* first attempt at which _create_render_service_stub does not raise
\* (ConnectAttempts: none does). The result is whether a stub was made and
\* how many attempts were made.
ConnectLoop(first_ok) ==
    IF first_ok < ConnectAttempts
    THEN [connected |-> TRUE, attempts |-> first_ok + 1]
    ELSE [connected |-> FALSE, attempts |-> ConnectAttempts]

\* A retry loop that gives up one attempt early.
RECURSIVE OnRunLoop_OneShort(_, _)
OnRunLoop_OneShort(outcomes, i) ==
    IF i = ConnectAttempts - 1
    THEN [raised |-> TRUE, stub |-> 0, attempts |-> i]
    ELSE IF outcomes[i + 1]
    THEN [raised |-> FALSE, stub |-> i + 1, attempts |-> i + 1]
    ELSE OnRunLoop_OneShort(outcomes, i + 1)

\* on_run(), lines 175-183, attempt by attempt, from loop index i on.
\* outcomes[k] is whether the k-th call of _create_render_service_stub
\* returns a stub (it raises otherwise). The loop returns at the first stub,
\* kept in self.client_stub, and RendererError is raised after the last
\* attempt failed; stub is the attempt whose stub is kept (0: none).
RECURSIVE OnRunLoop(_, _)
OnRunLoop(outcomes, i) ==
    IF i = ConnectAttempts
    THEN [raised |-> TRUE, stub |-> 0, attempts |-> i]
    ELSE IF outcomes[i + 1]
    THEN [raised |-> FALSE, stub |-> i + 1, attempts |-> i + 1]
    ELSE OnRunLoop(outcomes, i + 1)

\* on_run() run against a render server that answers the attempts in any
\* way. A behaviour holds one application.
Connect ==
    /\ call = NoCall
    /\ \E outcomes \in [1..ConnectAttempts -> BOOLEAN] :
          call' = [fn |-> "on_run", outcomes |-> outcomes,
                   out |-> OnRunLoop(outcomes, 0)]
    /\ UNCHANGED renderer_vars

\* on_run(), lines 170-174: self.server_process = subprocess.Popen(...).
\* The store replaces whatever handle the worker held; a process still
\* running behind the old handle is then held by no worker.
Popen(w) ==
    /\ server_process' = [server_process EXCEPT ![w] = "running"]
    /\ popens' = [popens EXCEPT ![w] = @ + 1]
    /\ orphaned' = [orphaned EXCEPT ![w] =
                       IF server_process[w] = "running" THEN @ + 1 ELSE @]

\* on_run(), lines 157-174: spawn the render server when the worker is to
\* own one (subprocess.Popen sets self.server_process).
OnRunSpawn(w) ==
    /\ wpc[w] = "on_run"
    /\ IF spawns THEN Popen(w)
                 ELSE UNCHANGED <<server_process, popens, orphaned>>
    /\ wpc' = [wpc EXCEPT ![w] = "connect"]
    /\ UNCHANGED <<task_done, alias_vars, extra_thread, spawns, call, sync_returns, pool,
                   should_shutdown, client_stub, worker_stamp,
                   current, dest_queue, rpc_log, dequeue_log>>
    /\ UNCHANGED <<dispatcher_vars, queue_vars>>

\* An on_run that returns to run() whether or not a stub was made.
OnRunConnect_NoRaise(w) ==
    /\ wpc[w] = "connect"
    /\ \E first_ok \in 0..ConnectAttempts :
          LET r == ConnectLoop(first_ok) IN
          /\ client_stub' = [client_stub EXCEPT ![w] = r.connected]
          /\ wpc' = [wpc EXCEPT ![w] = "poll"]
    /\ UNCHANGED <<ext_vars, spawns, call, sync_returns, pool, should_shutdown,
                   server_process, worker_stamp, current, dest_queue, rpc_log,
                   dequeue_log>>
    /\ UNCHANGED <<dispatcher_vars, queue_vars>>

\* on_run(), lines 175-183: the loop touches nothing but the worker's own
\* client_stub, so it is one step: it either returns with a stub, and run()
\* enters its loop, or raises RendererError, which leaves run() and ends the
\* thread.
OnRunConnect(w) ==
    /\ wpc[w] = "connect"
    /\ \E first_ok \in 0..ConnectAttempts :
          LET r == ConnectLoop(first_ok) IN
          /\ client_stub' = [client_stub EXCEPT ![w] = r.connected]
          /\ wpc' = [wpc EXCEPT ![w] = IF r.connected THEN "poll" ELSE "crashed"]
    /\ UNCHANGED <<ext_vars, spawns, call, sync_returns, pool, should_shutdown, server_process, worker_stamp,
                   current, dest_queue, rpc_log, dequeue_log>>
    /\ UNCHANGED <<dispatcher_vars, queue_vars>>

\* ---- QueueWorkerABC.run -------------------------------------------------

\* A get that hands out the head of the queue and leaves it there.
QueueGet_KeepsHead(q) == q

\* input_queue.get(block=True, timeout=2.0) returning a task: the head of
\* the queue leaves it.
QueueGet(q) == Tail(q)

\* A get that waits while any worker has an RPC in flight.
Dequeue_WaitsForRpcs(w) ==
    /\ wpc[w] = "poll"
    /\ input_queue # <<>>
    /\ \A w2 \in Workers : wpc[w2] \notin {"process", "render"}
    /\ current' = [current EXCEPT ![w] = Head(input_queue)]
    /\ dequeue_log' = Append(dequeue_log, [worker |-> w,
                                           task |-> Head(input_queue),
                                           applied |-> worker_stamp[w]])
    /\ input_queue' = QueueGet(input_queue)
    /\ wpc' = [wpc EXCEPT ![w] = "process"]
    /\ UNCHANGED <<ext_vars, spawns, call, sync_returns, pool, tasks, should_shutdown,
                   server_process, client_stub, worker_stamp, dest_queue,
                   rpc_log>>
    /\ UNCHANGED dispatcher_vars

\* run(), line 38, a task is there.
Dequeue(w) ==
    /\ wpc[w] = "poll"
    /\ input_queue # <<>>
    /\ current' = [current EXCEPT ![w] = Head(input_queue)]
    /\ dequeue_log' = Append(dequeue_log, [worker |-> w,
                                           task |-> Head(input_queue),
                                           applied |-> worker_stamp[w]])
    /\ input_queue' = QueueGet(input_queue)
    /\ wpc' = [wpc EXCEPT ![w] = "process"]
    /\ UNCHANGED <<ext_vars, spawns, call, sync_returns, pool, tasks, should_shutdown,
                   server_process, client_stub, worker_stamp, dest_queue,
                   rpc_log>>
    /\ UNCHANGED dispatcher_vars

\* run(), lines 39-40: the poll times out on an empty queue.
PollEmpty(w) ==
    /\ wpc[w] = "poll"
    /\ input_queue = <<>>
    /\ wpc' = [wpc EXCEPT ![w] = "check"]
    /\ UNCHANGED <<ext_vars, spawns, call, sync_returns, pool, should_shutdown, server_process,
                   client_stub, worker_stamp, current, dest_queue, rpc_log,
                   dequeue_log>>
    /\ UNCHANGED <<dispatcher_vars, queue_vars>>

\* ---- _RemoteRendererWorker.process --------------------------------------

\* The test of line 192 with the comparison turned round.
NeedsUpdate_OnlyOlder(task_stamp, applied) == task_stamp < applied

\* A test that sends Update for every task.
NeedsUpdate_Always(task_stamp, applied) == TRUE

\* process(), line 192: the test that decides whether Update is sent.
NeedsUpdate(task_stamp, applied) == task_stamp # applied

UpdateRpc(t) ==
    [op |-> "Update", task |-> t, version |-> tasks[t].stamp,
     config |-> tasks[t].config, edits |-> Edits(tasks[t].config)]

RenderRpc(w, t) ==
    [op |-> "RenderBatch", task |-> t, version |-> worker_stamp[w],
     config |-> tasks[t].config]

\* process(), lines 192-194: set the stamp, then client_stub.Update(...),
\* which returns or raises; a raise leaves run() and the thread ends.
ProcessUpdate(w) ==
    /\ wpc[w] = "process"
    /\ NeedsUpdate(tasks[current[w]].stamp, worker_stamp[w])
    /\ worker_stamp' = [worker_stamp EXCEPT ![w] = tasks[current[w]].stamp]
    /\ rpc_log' = [rpc_log EXCEPT ![w] = Append(@, UpdateRpc(current[w]))]
    /\ \E ok \in BOOLEAN :
          wpc' = [wpc EXCEPT ![w] = IF ok THEN "render" ELSE "crashed"]
    /\ UNCHANGED <<ext_vars, spawns, call, sync_returns, pool, should_shutdown, server_process,
                   client_stub, current, dest_queue, dequeue_log>>
    /\ UNCHANGED <<dispatcher_vars, queue_vars>>

\* process(), line 192, stamps equal: no Update.
ProcessNoUpdate(w) ==
    /\ wpc[w] = "process"
    /\ ~NeedsUpdate(tasks[current[w]].stamp, worker_stamp[w])
    /\ wpc' = [wpc EXCEPT ![w] = "render"]
    /\ UNCHANGED <<ext_vars, spawns, call, sync_returns, pool, should_shutdown, server_process,
                   client_stub, worker_stamp, current, dest_queue, rpc_log,
                   dequeue_log>>
    /\ UNCHANGED <<dispatcher_vars, queue_vars>>

\* A RenderBatch whose failure puts the task back on the input queue and
\* sends the worker back to the poll.
ProcessRender_Requeues(w) ==
    /\ wpc[w] = "render"
    /\ rpc_log' = [rpc_log EXCEPT ![w] = Append(@, RenderRpc(w, current[w]))]
    /\ \E ok \in BOOLEAN :
          /\ wpc' = [wpc EXCEPT ![w] = IF ok THEN "deliver" ELSE "poll"]
          /\ input_queue' = IF ok THEN input_queue
                                  ELSE Append(input_queue, current[w])
    /\ UNCHANGED <<ext_vars, spawns, call, sync_returns, pool, should_shutdown,
                   server_process, client_stub, worker_stamp, current,
                   dest_queue, dequeue_log, tasks>>
    /\ UNCHANGED dispatcher_vars

\* process(), lines 196-198: client_stub.RenderBatch(request) returns or
\* raises; a raise leaves run() and the thread ends.
ProcessRender(w) ==
    /\ wpc[w] = "render"
    /\ rpc_log' = [rpc_log EXCEPT ![w] = Append(@, RenderRpc(w, current[w]))]
    /\ \E ok \in BOOLEAN :
          wpc' = [wpc EXCEPT ![w] = IF ok THEN "deliver" ELSE "crashed"]
    /\ UNCHANGED <<ext_vars, spawns, call, sync_returns, pool, should_shutdown, server_process,
                   client_stub, worker_stamp, current, dest_queue, dequeue_log>>
    /\ UNCHANGED <<dispatcher_vars, queue_vars>>

\* process(), lines 196-201: the workload updated with the decoded response
\* to the request built from it.
ProcessResult(workload) ==
    LET built == BuildRenderBatchRequest(workload, BaseConfig)
        response == RenderServer(built.request)
    IN  DictUpdate(workload,
                   ConvertRenderBatchResponse(response, BaseConfig,
                                              built.batch_size).dataset)

\* The result put on a destination for task t.
Result(t) ==
    [task |-> t, kind |-> "result", data |-> ProcessResult(tasks[t].workload)]

\* A delivery that puts the result at the head of the destination queue.
Deliver_AtHead(w) ==
    /\ wpc[w] = "deliver"
    /\ dest_queue' = [dest_queue EXCEPT ![tasks[current[w]].destination] =
                         <<Result(current[w])>> \o @]
    /\ task_done' = [task_done EXCEPT ![current[w]] = @ + 1]
    /\ current' = [current EXCEPT ![w] = 0]
    /\ wpc' = [wpc EXCEPT ![w] = "check"]
    /\ UNCHANGED <<alias_vars, restart_vars, spawns, call, sync_returns, pool,
                   should_shutdown, server_process,
                   client_stub, worker_stamp, rpc_log, dequeue_log>>
    /\ UNCHANGED <<dispatcher_vars, queue_vars>>

\* process(), lines 199-201, and run(), lines 43-44: the result goes to the
\* task's destination and the task is acknowledged.
Deliver(w) ==
    /\ wpc[w] = "deliver"
    /\ dest_queue' = [dest_queue EXCEPT ![tasks[current[w]].destination] =
                         Append(@, Result(current[w]))]
    /\ task_done' = [task_done EXCEPT ![current[w]] = @ + 1]
    /\ current' = [current EXCEPT ![w] = 0]
    /\ wpc' = [wpc EXCEPT ![w] = "check"]
    /\ UNCHANGED <<alias_vars, restart_vars, spawns, call, sync_returns, pool,
                   should_shutdown, server_process,
                   client_stub, worker_stamp, rpc_log, dequeue_log>>
    /\ UNCHANGED <<dispatcher_vars, queue_vars>>

\* A worker that goes back to the poll, flag set or not, while tasks are
\* queued.
CheckContinue_WhileQueued(w) ==
    /\ wpc[w] = "check"
    /\ ~should_shutdown[w] \/ input_queue # <<>>
    /\ wpc' = [wpc EXCEPT ![w] = "poll"]
    /\ UNCHANGED <<ext_vars, spawns, call, sync_returns, pool, should_shutdown, server_process,
                   client_stub, worker_stamp, current, dest_queue, rpc_log,
                   dequeue_log>>
    /\ UNCHANGED <<dispatcher_vars, queue_vars>>

\* run(), line 43 on its own: workload.destination.put(result). The worker
\* still holds the task, which it has not acknowledged yet.
DeliverPut(w) ==
    /\ wpc[w] = "deliver"
    /\ dest_queue' = [dest_queue EXCEPT ![tasks[current[w]].destination] =
                         Append(@, Result(current[w]))]
    /\ wpc' = [wpc EXCEPT ![w] = "ack"]
    /\ UNCHANGED <<ext_vars, spawns, call, sync_returns, pool, should_shutdown,
                   server_process, client_stub, worker_stamp, current,
                   rpc_log, dequeue_log>>
    /\ UNCHANGED <<dispatcher_vars, queue_vars>>

\* run(), line 44 on its own: self.input_queue.task_done().
TaskDone(w) ==
    /\ wpc[w] = "ack"
    /\ task_done' = [task_done EXCEPT ![current[w]] = @ + 1]
    /\ current' = [current EXCEPT ![w] = 0]
    /\ wpc' = [wpc EXCEPT ![w] = "check"]
    /\ UNCHANGED <<alias_vars, restart_vars, spawns, call, sync_returns, pool,
                   should_shutdown, server_process, client_stub, worker_stamp,
                   dest_queue, rpc_log, dequeue_log>>
    /\ UNCHANGED <<dispatcher_vars, queue_vars>>

\* run(), line 46, flag not set: back to the poll.
CheckContinue(w) ==
    /\ wpc[w] = "check"
    /\ ~should_shutdown[w]
    /\ wpc' = [wpc EXCEPT ![w] = "poll"]
    /\ UNCHANGED <<ext_vars, spawns, call, sync_returns, pool, should_shutdown, server_process,
                   client_stub, worker_stamp, current, dest_queue, rpc_log,
                   dequeue_log>>
    /\ UNCHANGED <<dispatcher_vars, queue_vars>>

\* An on_shutdown that signals the render server whether or not the worker
\* started it.
OnShutdown_Always(w) ==
    /\ wpc[w] = "check"
    /\ should_shutdown[w]
    /\ server_process' = [server_process EXCEPT ![w] = "terminated"]
    /\ wpc' = [wpc EXCEPT ![w] = "stopped"]
    /\ UNCHANGED <<ext_vars, spawns, call, sync_returns, pool, should_shutdown,
                   client_stub, worker_stamp, current, dest_queue, rpc_log,
                   dequeue_log>>
    /\ UNCHANGED <<dispatcher_vars, queue_vars>>

\* run(), lines 46-48, flag set: on_shutdown() (terminate, kill, wait on the
\* worker's own process, if it has one) and return.
OnShutdown(w) ==
    /\ wpc[w] = "check"
    /\ should_shutdown[w]
    /\ server_process' = IF server_process[w] # "none"
                         THEN [server_process EXCEPT ![w] = "terminated"]
                         ELSE server_process
    /\ wpc' = [wpc EXCEPT ![w] = "stopped"]
    /\ UNCHANGED <<ext_vars, spawns, call, sync_returns, pool, should_shutdown, client_stub,
                   worker_stamp, current, dest_queue, rpc_log, dequeue_log>>
    /\ UNCHANGED <<dispatcher_vars, queue_vars>>

\* ---- QueueExecutorABC.start, called again --------------------------------

\* start(), lines 65-69, called on a pool already started: nothing tests
\* for that, so a new Thread is made for every worker object and started,
\* while the thread of the first start() may still be running on it.
\* One extra start() is followed.
StartAgain ==
    /\ pool.pc \in {"started", "restarting"}
    /\ extra_thread[pool.i] = "none"
    /\ extra_thread' = [extra_thread EXCEPT ![pool.i] = "on_run"]
    /\ pool' = IF pool.i = NWorkers THEN [pc |-> "started", i |-> 1]
                                    ELSE [pc |-> "restarting", i |-> pool.i + 1]
    /\ UNCHANGED <<task_done, alias_vars, popens, orphaned, spawns, call, sync_returns>>
    /\ UNCHANGED <<worker_vars, dispatcher_vars, queue_vars>>

\* The second thread on worker w: run() calls self.on_run() again, on the
\* same worker object (lines 157-174).
ExtraOnRunSpawn(w) ==
    /\ extra_thread[w] = "on_run"
    /\ IF spawns THEN Popen(w)
                 ELSE UNCHANGED <<server_process, popens, orphaned>>
    /\ extra_thread' = [extra_thread EXCEPT ![w] = "connect"]
    /\ UNCHANGED <<task_done, alias_vars, spawns, call, sync_returns, pool, wpc,
                   should_shutdown, client_stub, worker_stamp, current,
                   dest_queue, rpc_log, dequeue_log>>
    /\ UNCHANGED <<dispatcher_vars, queue_vars>>

\* The second thread's on_run(), lines 175-183: client_stub is stored only
\* when an attempt succeeds.
ExtraOnRunConnect(w) ==
    /\ extra_thread[w] = "connect"
    /\ \E first_ok \in 0..ConnectAttempts :
          LET r == ConnectLoop(first_ok) IN
          /\ client_stub' = [client_stub EXCEPT ![w] = @ \/ r.connected]
          /\ extra_thread' = [extra_thread EXCEPT ![w] =
                                  IF r.connected THEN "loop" ELSE "crashed"]
    /\ UNCHANGED <<task_done, alias_vars, popens, orphaned, spawns, call, sync_returns,
                   pool, wpc, should_shutdown, server_process, worker_stamp,
                   current, dest_queue, rpc_log, dequeue_log>>
    /\ UNCHANGED <<dispatcher_vars, queue_vars>>

\* The second thread's pass through the loop of run(), lines 36-48, with a
\* task on the queue, taken as one step: get, process (Update when the
\* stamps differ, RenderBatch), put the result, then the test of the flag
\* and, when it is set, on_shutdown() and the return. An RPC that raises
\* ends the thread.
ExtraServe(w) ==
    /\ extra_thread[w] = "loop"
    /\ input_queue # <<>>
    /\ LET t == Head(input_queue)
           update == NeedsUpdate(tasks[t].stamp, worker_stamp[w])
           sent == IF update THEN <<UpdateRpc(t)>> ELSE <<>>
           render == [RenderRpc(w, t) EXCEPT !.version = tasks[t].stamp]
       IN  /\ input_queue' = QueueGet(input_queue)
           /\ dequeue_log' = Append(dequeue_log,
                                    [worker |-> w, task |-> t,
                                     applied |-> worker_stamp[w]])
           /\ worker_stamp' = [worker_stamp EXCEPT ![w] = tasks[t].stamp]
           /\ \E failure \in {"none", "RenderBatch"}
                           \cup (IF update THEN {"Update"} ELSE {}) :
                 /\ rpc_log' = [rpc_log EXCEPT ![w] =
                                   IF failure = "Update"
                                   THEN @ \o sent
                                   ELSE @ \o sent \o <<render>>]
                 /\ dest_queue' = IF failure = "none"
                                  THEN [dest_queue EXCEPT
                                           ![tasks[t].destination] =
                                               Append(@, Result(t))]
                                  ELSE dest_queue
                 /\ task_done' = IF failure = "none"
                                 THEN [task_done EXCEPT ![t] = @ + 1]
                                 ELSE task_done
                 /\ extra_thread' = [extra_thread EXCEPT ![w] =
                                         IF failure # "none" THEN "crashed"
                                         ELSE IF should_shutdown[w]
                                         THEN "stopped" ELSE "loop"]
                 /\ server_process' =
                       IF /\ failure = "none"
                          /\ should_shutdown[w]
                          /\ server_process[w] # "none"
                       THEN [server_process EXCEPT ![w] = "terminated"]
                       ELSE server_process
    /\ UNCHANGED <<alias_vars, popens, orphaned, spawns, call, sync_returns,
                   pool, tasks, wpc, should_shutdown, client_stub, current>>
    /\ UNCHANGED dispatcher_vars

\* The second thread at line 46 with the flag set: on_shutdown() on the
\* handle the worker holds now, and return.
ExtraOnShutdown(w) ==
    /\ extra_thread[w] = "loop"
    /\ should_shutdown[w]
    /\ server_process' = IF server_process[w] # "none"
                         THEN [server_process EXCEPT ![w] = "terminated"]
                         ELSE server_process
    /\ extra_thread' = [extra_thread EXCEPT ![w] = "stopped"]
    /\ UNCHANGED <<task_done, alias_vars, popens, orphaned, spawns, call, sync_returns,
                   pool, wpc, should_shutdown, client_stub, worker_stamp,
                   current, dest_queue, rpc_log, dequeue_log>>
    /\ UNCHANGED <<dispatcher_vars, queue_vars>>

ExtraStep(w) ==
    \/ ExtraOnRunSpawn(w) \/ ExtraOnRunConnect(w)
    \/ ExtraServe(w) \/ ExtraOnShutdown(w)

\* _convert_render_batch_response applied, as process() applies it at lines
\* 196-200, to the response to a request built from a workload, carrying any
\* auxiliary streams. A behaviour holds one application.
Convert ==
    /\ call = NoCall
    /\ \E config \in Configs, n \in 0..MaxBatch,
          floats \in AuxLists, ints \in AuxLists, bools \in AuxLists :
          LET built == BuildRenderBatchRequest(Workload(n, 0), config)
              response == [RenderServer(built.request) EXCEPT
                              !.auxiliary_float_streams = floats,
                              !.auxiliary_int_streams = ints,
                              !.auxiliary_bool_streams = bools]
          IN  call' = [fn |-> "convert", config |-> config,
                       batch_size |-> built.batch_size, response |-> response,
                       out |-> ConvertRenderBatchResponse(response, config,
                                                          built.batch_size)]
    /\ UNCHANGED renderer_vars

\* ---- RemoteRenderer.create_workers --------------------------------------

\* The text of an environment variable is a sequence of characters.
EnvChars == {"0", "1", "2", "-", "x"}
Digit(ch) == CASE ch = "0" -> 0 [] ch = "1" -> 1 [] ch = "2" -> 2 [] OTHER -> -1

\* The value of a non-empty run of decimal digits, -1 when it is not one.
RECURSIVE ParseDigits(_, _)
ParseDigits(text, acc) ==
    IF text = <<>> THEN acc
    ELSE IF Digit(Head(text)) < 0 THEN -1
    ELSE ParseDigits(Tail(text), acc * 10 + Digit(Head(text)))

\* int(text): an optional '-' and decimal digits, ValueError otherwise.
ParseInt(text) ==
    LET negative == text # <<>> /\ Head(text) = "-"
        digits == IF negative THEN Tail(text) ELSE text
        magnitude == IF digits = <<>> THEN -1 ELSE ParseDigits(digits, 0)
    IN  IF magnitude < 0 THEN [raised |-> TRUE]
        ELSE [raised |-> FALSE,
              value |-> IF negative THEN 0 - magnitude ELSE magnitude]

\* list[:k]: the first k items, and for a negative k all but the last -k.
SlicePrefix(list, k) ==
    LET stop == IF k >= 0 THEN k ELSE Len(list) + k
    IN  SubSeq(list, 1, IF stop > Len(list) THEN Len(list) ELSE stop)

\* create_workers(input_queue, server_configs, base_config) with the
\* environment's ORRB_MINIMAL (unset, or a text): the workers made, one per
\* (device, port) kept, or raised for the AssertionError of line 294 and the
\* ValueError of int().
CreateWorkers(server_configs, orrb_minimal) ==
    IF Len(server_configs) = 0 THEN [raised |-> TRUE, workers |-> <<>>]
    ELSE IF orrb_minimal.set /\ orrb_minimal.text # <<>>
    THEN LET minimal_setup_size == ParseInt(orrb_minimal.text)
         IN  IF minimal_setup_size.raised
             THEN [raised |-> TRUE, workers |-> <<>>]
             ELSE [raised |-> FALSE,
                   workers |-> SlicePrefix(server_configs,
                                           minimal_setup_size.value)]
    ELSE [raised |-> FALSE, workers |-> server_configs]

\* The server_configs lists given: (device, port) pairs, device i on port
\* 7000 + i as in bin/benchmark.py.
ServerConfigs == {[i \in 1..n |-> <<i - 1, 7000 + i - 1>>] : n \in 0..MaxServers}

\* The environment: ORRB_MINIMAL unset, or set to a text of up to MaxEnvLen
\* characters.
EnvTexts == UNION {[1..n -> EnvChars] : n \in 0..MaxEnvLen}
Environments ==
    {[set |-> FALSE, text |-> <<>>]} \cup {[set |-> TRUE, text |-> t] : t \in EnvTexts}

\* RemoteRenderer.__init__ calling create_workers through
\* QueueExecutorABC.__init__. A behaviour holds one application.
Create ==
    /\ call = NoCall
    /\ \E server_configs \in ServerConfigs, orrb_minimal \in Environments :
          call' = [fn |-> "create_workers", server_configs |-> server_configs,
                   orrb_minimal |-> orrb_minimal,
                   out |-> CreateWorkers(server_configs, orrb_minimal)]
    /\ UNCHANGED renderer_vars

\* ---- _build_render_batch_request on its own -----------------------------

\* Batch seeds: Python ints of either sign, of one digit (below 1 << 31) or
\* more (beyond 32 bits), with digits at both ends of the range.
SeedDigits == {0, 1, MaxInt32}
Seeds ==
    [neg : BOOLEAN,
     digits : UNION {[1..len -> SeedDigits] : len \in 0..MaxDigits}]

\* Per-entry seeds.
EntrySeeds == {3, 5}
SeedLists == UNION {[1..len -> EntrySeeds] : len \in 0..MaxBatch}

\* A key of the workload that may be left out: no value, or one.
Optional(values) == {{}} \cup {{v} : v \in values}

\* The workload dict with n qpos vectors, and the keys 'seed' and 'seeds'
\* where given.
CallerWorkload(n, seed, seeds) ==
    LET qpos == DictSet(EmptyDict, "qpos", [i \in 1..n |-> <<i>>])
        with_seed == IF seed = {} THEN qpos
                     ELSE DictSet(qpos, "seed", CHOOSE v \in seed : TRUE)
    IN  IF seeds = {} THEN with_seed
        ELSE DictSet(with_seed, "seeds", CHOOSE v \in seeds : TRUE)

\* _build_render_batch_request applied to a workload, as process() applies
\* it at line 197. A behaviour holds one application.
Build ==
    /\ call = NoCall
    /\ \E n \in 0..MaxBatch, seed \in Optional(Seeds),
          seeds \in Optional(SeedLists) :
          LET workload == CallerWorkload(n, seed, seeds) IN
          call' = [fn |-> "build", workload |-> workload,
                   out |-> BuildRenderBatchRequest(workload, BaseConfig)]
    /\ UNCHANGED renderer_vars

\* ---- the system ---------------------------------------------------------

PoolStep == StartWorker \/ ShutdownSignal \/ ShutdownJoin

CallerStep(c) ==
    \/ UpdateReadStamp(c) \/ UpdateWriteStamp(c) \/ UpdateWriteConfig(c)
    \/ RenderReadStamp(c) \/ RenderReadConfig(c) \/ RenderPut(c)

WorkerStep(w) ==
    \/ OnRunSpawn(w) \/ OnRunConnect(w)
    \/ Dequeue(w) \/ PollEmpty(w)
    \/ ProcessUpdate(w) \/ ProcessNoUpdate(w) \/ ProcessRender(w)
    \/ Deliver(w) \/ CheckContinue(w) \/ OnShutdown(w)

Next ==
    \/ PoolStep
    \/ \E c \in Callers : CallerStep(c)
    \/ \E w \in Workers : WorkerStep(w)

Spec == Init /\ [][Next]_vars

\* One caller thread makes every call, as the programs of bin/ and the test
\* do; the pool thread and the workers run as in Spec.
SerialInit == Constructed(MaxSerialCalls)

SerialNext ==
    \/ PoolStep
    \/ CallerStep(1)
    \/ \E w \in Workers : WorkerStep(w)

SerialSpec == SerialInit /\ [][SerialNext]_vars

\* One thread calls render_batch() over and over, as the test and
\* bin/demo.py do, while the other caller threads call update() and
\* render_batch_async() with queues of their own.
SyncCaller == 1
AsyncCaller == 2

SyncCallerStep(c) ==
    \/ RenderBatch(c) \/ RenderReadConfig(c) \/ RenderPut(c) \/ SyncGet(c)

SyncInit == Constructed(MaxSyncCalls)

SyncNext ==
    \/ PoolStep
    \/ SyncCallerStep(SyncCaller)
    \/ CallerStep(AsyncCaller)
    \/ \E w \in Workers : WorkerStep(w)

SyncSpec == SyncInit /\ [][SyncNext]_vars

\* One caller thread, and one worker that serves every task: the threads of
\* the other workers take no step.
SoloWorker == 1

SoloInit == Constructed(MaxSoloCalls)

SoloNext ==
    \/ PoolStep
    \/ CallerStep(1)
    \/ WorkerStep(SoloWorker)

SoloSpec == SoloInit /\ [][SoloNext]_vars

\* Short runs of one caller thread with either deployment: the workers start
\* their render servers, or (spawn_servers off, or ORRB_DETACHED set) the
\* servers are processes started by someone else.
ShortInit == \E spawn \in BOOLEAN : Built(MaxShortCalls, spawn)

ShortSpec == ShortInit /\ [][SerialNext]_vars

\* Runs with fair scheduling: the pool thread and every worker
\* thread that can take a step eventually takes one (a poll returns after
\* its timeout of 2 s, an RPC or a connection attempt returns or raises).
\* The caller thread only submits, so no task asks for an Update.
SubmitStep(c) == RenderReadStamp(c) \/ RenderReadConfig(c) \/ RenderPut(c)

ServeStep(w) ==
    \/ OnRunSpawn(w) \/ OnRunConnect(w)
    \/ Dequeue(w) \/ PollEmpty(w)
    \/ ProcessNoUpdate(w) \/ ProcessRender(w)
    \/ Deliver(w) \/ CheckContinue(w) \/ OnShutdown(w)

LiveInit == Constructed(MaxLiveCalls)

LiveNext ==
    \/ PoolStep
    \/ SubmitStep(1)
    \/ \E w \in Workers : ServeStep(w)

Fairness ==
    /\ WF_vars(PoolStep)
    /\ \A w \in Workers : WF_vars(ServeStep(w))

LiveSpec == LiveInit /\ [][LiveNext]_vars /\ Fairness

\* Runs of one caller thread that, besides update() and the render calls,
\* takes the configuration through mutable_renderer_config() and edits it.
EditInit == Constructed(MaxSerialCalls)

EditNext ==
    \/ SerialNext
    \/ MutableRendererConfig(1)

EditSpec == EditInit /\ [][EditNext]_vars

\* Runs of one caller thread that may also call the low-level execute().
ExecuteInit == ShortInit

ExecuteNext ==
    \/ SerialNext
    \/ \E d \in Dests : RendererExecute(1, d)

ExecuteSpec == ExecuteInit /\ [][ExecuteNext]_vars

\* Runs of one caller thread in which the put of a result and the
\* acknowledgement of its task (lines 43 and 44 of run()) are two steps.
AckWorkerStep(w) ==
    \/ OnRunSpawn(w) \/ OnRunConnect(w)
    \/ Dequeue(w) \/ PollEmpty(w)
    \/ ProcessUpdate(w) \/ ProcessNoUpdate(w) \/ ProcessRender(w)
    \/ DeliverPut(w) \/ TaskDone(w)
    \/ CheckContinue(w) \/ OnShutdown(w)

AckInit == ShortInit

AckNext ==
    \/ PoolStep
    \/ CallerStep(1)
    \/ \E w \in Workers : AckWorkerStep(w)

AckSpec == AckInit /\ [][AckNext]_vars

\* Runs in which the owner of the pool calls start() a second time.
RestartInit == ShortInit

RestartNext ==
    \/ SerialNext
    \/ StartAgain
    \/ \E w \in Workers : ExtraStep(w)

RestartSpec == RestartInit /\ [][RestartNext]_vars

\* The module-level and construction-time functions on their own, applied
\* to arguments of every shape; no thread runs.
FunctionInit == Constructed(0)

FunctionNext == Convert \/ Create \/ Connect \/ Build

FunctionSpec == FunctionInit /\ [][FunctionNext]_vars


\* ---- properties ---------------------------------------------------------

TaskIds == 1..Len(tasks)

InQueue(t) == \E i \in 1..Len(input_queue) : input_queue[i] = t

\* Entries put on task t's destination for t.
EntriesFor(t) ==
    {i \in 1..Len(dest_queue[tasks[t].destination]) :
        dest_queue[tasks[t].destination][i].task = t}

\* Entries put on any destination for t.
ResultsAnywhere(t) ==
    UNION {{<<d, i>> : i \in {k \in 1..Len(dest_queue[d]) :
                                 dest_queue[d][k].task = t}} : d \in Dests}

Dequeues(t) == {i \in 1..Len(dequeue_log) : dequeue_log[i].task = t}

Holders(t) == {w \in Workers : current[w] = t}

\* The thread that held t ended on an exception of process(): nothing will
\* put a result for t any more.
DroppedByCrash(t) == \E w \in Workers : wpc[w] = "crashed" /\ current[w] = t

\* t is in the input queue and every worker thread has ended: nothing will
\* take it out any more.
LeftInQueue(t) == InQueue(t) /\ \A w \in Workers : ThreadDead(w)

\* A worker's on_run raised RendererError: the fatal error of startup, which
\* the claim lets end the process.
StartupFailed == \E w \in Workers : wpc[w] = "crashed" /\ ~client_stub[w]

\* C1: every submitted task eventually has exactly one result on its own
\* destination, or the process terminates abnormally; none is dropped or left
\* in the input queue forever. Stated on single states: unless startup failed
\* fatally, no task is in a state from which its result can no longer come
\* (held by a thread that has ended, or queued with every thread ended), and
\* no task has two results.
C1_EveryTaskGetsOneResult ==
    ~StartupFailed =>
        \A t \in TaskIds :
            /\ ~(DroppedByCrash(t) /\ EntriesFor(t) = {})
            /\ ~LeftInQueue(t)
            /\ Cardinality(EntriesFor(t)) <= 1

\* C2: each enqueued task is dequeued by exactly one worker (never by two,
\* and by one as soon as it has left the queue), is held by at most one
\* worker, and has at most one result on any destination.
C2_EachTaskToOneWorker ==
    \A t \in TaskIds :
        /\ Cardinality(Dequeues(t)) <= 1
        /\ InQueue(t) <=> Dequeues(t) = {}
        /\ Cardinality(Holders(t)) <= 1
        /\ Cardinality(ResultsAnywhere(t)) <= 1

\* Two workers took two tasks off the shared queue and hold them at the same
\* time, and a result has been delivered.
C2_Witness ==
    /\ \E w1, w2 \in Workers :
          w1 # w2 /\ current[w1] # 0 /\ current[w2] # 0
    /\ \E d \in Dests : dest_queue[d] # <<>>

\* C3: once shutdown() has returned, no render server spawned by a worker of
\* the pool is running.
C3_NoProcessAfterShutdown ==
    pool.pc = "returned" => \A w \in Workers : server_process[w] # "running"

\* C4: a worker's applied configuration version never decreases.
C4_AppliedVersionMonotone ==
    [][\A w \in Workers : worker_stamp'[w] >= worker_stamp[w]]_vars

UpdatesSent(w, v) ==
    {i \in 1..Len(rpc_log[w]) :
        rpc_log[w][i].op = "Update" /\ rpc_log[w][i].version = v}

\* C5: a worker issues Update at most once per configuration version.
C5_UpdateOncePerVersion ==
    \A w \in Workers : \A v \in 0..MaxCalls :
        Cardinality(UpdatesSent(w, v)) <= 1

AppliedAtDequeue(t) ==
    LET i == CHOOSE i \in Dequeues(t) : TRUE IN dequeue_log[i].applied

\* C6: when a worker serves a task whose stamp is newer than the version the
\* worker had applied, Update carrying the task's configuration value is
\* issued before the RenderBatch of that task, and RenderBatch is issued with
\* the worker's applied version equal to the task's stamp.
C6_UpdateBeforeRender ==
    \A w \in Workers : \A j \in 1..Len(rpc_log[w]) :
        LET r == rpc_log[w][j] IN
        (r.op = "RenderBatch" /\ tasks[r.task].stamp > AppliedAtDequeue(r.task))
        => /\ r.version = tasks[r.task].stamp
           /\ \E i \in 1..(j - 1) :
                 /\ rpc_log[w][i].op = "Update"
                 /\ rpc_log[w][i].task = r.task
                 /\ rpc_log[w][i].config = tasks[r.task].config

\* A worker has issued RenderBatch for a task stamped newer than the version
\* it had applied when it dequeued the task.
C6_Witness ==
    \E w \in Workers : \E j \in 1..Len(rpc_log[w]) :
        /\ rpc_log[w][j].op = "RenderBatch"
        /\ tasks[rpc_log[w][j].task].stamp > AppliedAtDequeue(rpc_log[w][j].task)

\* C7: a task submitted after update() returned with version v is stamped
\* with a version >= v, and the worker that renders it has applied a version
\* >= v at that moment.
C7_SubmissionSeesReturnedUpdate ==
    /\ \A t \in TaskIds : tasks[t].stamp >= tasks[t].floor
    /\ \A w \in Workers : \A j \in 1..Len(rpc_log[w]) :
          rpc_log[w][j].op = "RenderBatch"
          => rpc_log[w][j].version >= tasks[rpc_log[w][j].task].floor

\* The pairs a task may carry: the constructor's, and those of the update()
\* calls.
PublishedPairs == published \cup {<<0, 0>>}

\* C8: every stamped workload placed in the queue carries a version together
\* with the configuration value published under that version.
C8_PairPublishedAtomically ==
    \A t \in TaskIds : <<tasks[t].stamp, tasks[t].config>> \in PublishedPairs

InUpdate(c) == caller[c].pc \in {"update_stamp", "update_config"}

\* C9: after k calls of update() the version is the initial version plus k,
\* and no two published values share a version.
C9_VersionCountsUpdates ==
    /\ (\A c \in Callers : ~InUpdate(c)) => renderer_config_stamp = n_update
    /\ \A p, q \in published : p[1] = q[1] => p = q

\* C10: when Update or RenderBatch fails while a worker processes a task,
\* something signalling the failed task is delivered on its destination.
C10_RpcFailurePropagated ==
    \A t \in TaskIds : DroppedByCrash(t) => EntriesFor(t) # {}

\* C11: a worker that exhausts its connection attempts aborts pool startup:
\* start() does not complete normally and leave a pool that accepts
\* submissions while that worker is dead. Stated on steps: once a worker's
\* on_run has failed and start() has returned, no task enters the input queue.
C11_StartupFailureAbortsStart ==
    [][(StartupFailed /\ pool.pc = "started") => tasks' = tasks]_vars

\* The place of task t's result on its destination queue.
ResultPlace(t) == CHOOSE i \in EntriesFor(t) : TRUE

\* C12: a worker processes its tasks one at a time and delivers their
\* results in the order it dequeued them: when it has dequeued a later task
\* the result of every earlier one is already on its destination (before the
\* later one's, when on the same queue), and the only task of a worker
\* without a result is the one it holds.
C12_PerWorkerOrder ==
    /\ \A i, j \in 1..Len(dequeue_log) :
          (i < j /\ dequeue_log[i].worker = dequeue_log[j].worker)
          => LET ti == dequeue_log[i].task
                 tj == dequeue_log[j].task
             IN /\ EntriesFor(ti) # {}
                /\ (EntriesFor(tj) # {}
                    /\ tasks[ti].destination = tasks[tj].destination)
                   => ResultPlace(ti) < ResultPlace(tj)
    /\ \A i \in 1..Len(dequeue_log) :
          EntriesFor(dequeue_log[i].task) = {}
          => current[dequeue_log[i].worker] = dequeue_log[i].task

\* One worker has dequeued two tasks and delivered the results of both.
C12_Witness ==
    \E i, j \in 1..Len(dequeue_log) :
        /\ i < j
        /\ dequeue_log[i].worker = dequeue_log[j].worker
        /\ EntriesFor(dequeue_log[i].task) # {}
        /\ EntriesFor(dequeue_log[j].task) # {}

\* C13: a render_batch() call returns the result of the task it submitted,
\* whatever the other caller threads submit to queues of their own, and
\* whenever no render_batch() call is in progress the sync_queue is empty.
C13_RenderBatchReturnsOwnResult ==
    /\ \A i \in 1..Len(sync_returns) :
          /\ sync_returns[i].received.kind = "result"
          /\ sync_returns[i].received.task = sync_returns[i].submitted
    /\ (caller[SyncCaller].pc = "idle") => dest_queue[SyncQueue] = <<>>
    /\ \A d \in Dests : \A k \in 1..Len(dest_queue[d]) :
          tasks[dest_queue[d][k].task].destination = d

\* render_batch() has returned while another thread's result was delivered
\* to that thread's queue.
C13_Witness ==
    /\ sync_returns # <<>>
    /\ \E d \in Dests \ {SyncQueue} : dest_queue[d] # <<>>

\* The keys and frames the test expects of a result: for a camera, the key
\* <camera><suffix> holding one frame per entry, frame i decoded from entry i.
HasFrames(dataset, camera, key, mode, n) ==
    /\ key \in DOMAIN dataset
    /\ Len(dataset[key]) = n
    /\ \A i \in 1..n : dataset[key][i] = ReadImage(mode, Encoded(camera, i, mode))

\* C15: the result of a batch has, for every configured camera, the key
\* <camera> and, for every enabled mode, the key <camera>_<mode>, each with
\* one decoded frame per entry, frame i being that of entry i.
C15_KeysPerCameraAndMode ==
    (call.fn = "convert" /\ ~call.out.raised) =>
        \A c \in 1..Len(call.config.camera_names) :
            LET camera == call.config.camera_names[c]
                d == call.out.dataset
                n == call.batch_size
            IN  /\ HasFrames(d, camera, camera, "rgb", n)
                /\ call.config.render_depth
                   => HasFrames(d, camera, camera \o "_depth", "depth", n)
                /\ call.config.render_normals
                   => HasFrames(d, camera, camera \o "_normals", "normals", n)
                /\ call.config.render_segmentation
                   => HasFrames(d, camera, camera \o "_segmentation",
                                "segmentation", n)

\* The same for batches of at least one entry.
C15_HoldsForNonEmptyBatch ==
    (call.fn = "convert" /\ call.batch_size >= 1) => C15_KeysPerCameraAndMode

\* The auxiliary streams of a list whose length is a multiple of the batch
\* size; no length is a multiple of a batch size of 0.
WellFormed(streams, n) ==
    SelectSeq(streams, LAMBDA s : n # 0 /\ Len(s.data) % n = 0)

\* The response without its malformed auxiliary streams.
WithoutMalformed(response, n) ==
    [response EXCEPT
        !.auxiliary_float_streams = WellFormed(@, n),
        !.auxiliary_int_streams = WellFormed(@, n),
        !.auxiliary_bool_streams = WellFormed(@, n)]

\* C16: decoding a response does not fail, and its result is the result of
\* decoding the response without the auxiliary streams whose length is not
\* a multiple of the batch size: those are left out, every other stream is
\* there unchanged.
C16_MalformedAuxiliaryDropped ==
    (call.fn = "convert") =>
        /\ ~call.out.raised
        /\ call.out.dataset =
              ConvertRenderBatchResponse(
                  WithoutMalformed(call.response, call.batch_size),
                  call.config, call.batch_size).dataset

\* The same for batches of at least one entry.
C16_HoldsForNonEmptyBatch ==
    (call.fn = "convert" /\ call.batch_size >= 1)
    => C16_MalformedAuxiliaryDropped

\* The seeds of the workloads submitted, and of the results on the
\* destination queues.
SubmittedSeeds == {tasks[t].workload["seed"] : t \in TaskIds}
Delivered ==
    UNION {{dest_queue[d][k] : k \in 1..Len(dest_queue[d])} : d \in Dests}
DeliveredSeeds == {r.data["seed"] : r \in Delivered}

\* C14: every result on a destination carries the seed and the qpos entries
\* of the workload it was submitted with, and once shutdown() has returned
\* the seeds of the delivered results are the seeds of the submitted tasks.
C14_SeedsPreserved ==
    /\ \A r \in Delivered :
          /\ r.data["seed"] = tasks[r.task].workload["seed"]
          /\ r.data["qpos"] = tasks[r.task].workload["qpos"]
    /\ (pool.pc = "returned" /\ ~StartupFailed)
       => DeliveredSeeds = SubmittedSeeds

\* The part of C14 that holds: delivered results carry their own workload's
\* fields, and no seed is delivered twice.
C14_DeliveredFieldsUnchanged ==
    /\ \A r \in Delivered :
          /\ r.data["seed"] = tasks[r.task].workload["seed"]
          /\ r.data["qpos"] = tasks[r.task].workload["qpos"]
    /\ DeliveredSeeds \subseteq SubmittedSeeds
    /\ Cardinality(Delivered) = Cardinality(DeliveredSeeds)

\* C17: for a non-empty list of (device, port) pairs and any ORRB_MINIMAL,
\* create_workers returns at least one worker, and the workers are those of
\* a prefix of the list, in order.
C17_AtLeastOneWorker ==
    (call.fn = "create_workers" /\ Len(call.server_configs) > 0) =>
        /\ ~call.out.raised
        /\ Len(call.out.workers) >= 1
        /\ Len(call.out.workers) <= Len(call.server_configs)
        /\ call.out.workers =
              SubSeq(call.server_configs, 1, Len(call.out.workers))

\* What holds for every ORRB_MINIMAL: when create_workers returns, the
\* workers are a prefix of the list, possibly an empty one.
C17_PrefixWhenReturns ==
    (call.fn = "create_workers" /\ ~call.out.raised) =>
        /\ Len(call.out.workers) <= Len(call.server_configs)
        /\ call.out.workers =
              SubSeq(call.server_configs, 1, Len(call.out.workers))

\* C18: a worker that did not start its render server holds no process
\* handle and its on_shutdown terminates nothing: server_process, which
\* only on_shutdown's terminate/kill turns to "terminated", stays unset.
C18_NeverKillsForeignProcess ==
    ~spawns => \A w \in Workers : server_process[w] = "none"

\* A worker that did not start its server has run on_shutdown and stopped.
C18_Witness ==
    /\ ~spawns
    /\ \E w \in Workers : wpc[w] = "stopped" /\ client_stub[w]

\* The RPCs of the worker that serves every task.
SoloLog == rpc_log[SoloWorker]
SoloUpdates == {i \in 1..Len(SoloLog) : SoloLog[i].op = "Update"}
SoloRenders == {i \in 1..Len(SoloLog) : SoloLog[i].op = "RenderBatch"}

\* C19: with one caller thread and one worker serving every task, the Update
\* RPCs carry the distinct non-initial versions stamped on the tasks served,
\* in strictly increasing order, each once, and each is issued immediately
\* before the first RenderBatch of a task of that version: the RPC after an
\* Update is the RenderBatch of the same task, no earlier RenderBatch has
\* that version, and every RenderBatch of a non-initial version follows the
\* Update of that version.
C19_UpdateSequence ==
    /\ \A i \in SoloUpdates :
          /\ SoloLog[i].version = tasks[SoloLog[i].task].stamp
          /\ SoloLog[i].version # 0
          /\ \A j \in SoloUpdates : i < j => SoloLog[i].version < SoloLog[j].version
          /\ i < Len(SoloLog)
             => /\ SoloLog[i + 1].op = "RenderBatch"
                /\ SoloLog[i + 1].task = SoloLog[i].task
          /\ \A j \in SoloRenders :
                j < i => tasks[SoloLog[j].task].stamp # SoloLog[i].version
    /\ \A j \in SoloRenders :
          /\ SoloLog[j].version = tasks[SoloLog[j].task].stamp
          /\ SoloLog[j].version # 0
             => \E i \in SoloUpdates :
                   i < j /\ SoloLog[i].version = SoloLog[j].version

\* publish v1, submit A, publish v2, submit B: Update(v1), RenderBatch(A),
\* Update(v2), RenderBatch(B).
C19_Witness ==
    /\ Len(SoloLog) = 4
    /\ SoloLog[1].op = "Update" /\ SoloLog[1].version = 1
    /\ SoloLog[2].op = "RenderBatch" /\ SoloLog[2].task = 1
    /\ SoloLog[3].op = "Update" /\ SoloLog[3].version = 2
    /\ SoloLog[4].op = "RenderBatch" /\ SoloLog[4].task = 2

\* The lifecycle state of a worker: 0 NotStarted (thread not started),
\* 1 Starting (in on_run), 2 Running (in the loop of run), 4 Stopped (run has
\* returned); ShuttingDown, 3, is on_shutdown, which is inside the one step
\* from Running to Stopped. A thread ended by an exception stays in the state
\* it was in: Starting when on_run raised, Running when process raised.
InLoop(w) == wpc[w] \in {"poll", "process", "render", "deliver", "check"}

WorkerState(w) ==
    CASE wpc[w] = "not_started" -> 0
      [] wpc[w] \in {"on_run", "connect"} -> 1
      [] InLoop(w) -> 2
      [] wpc[w] = "stopped" -> 4
      [] wpc[w] = "crashed" -> IF client_stub[w] THEN 2 ELSE 1

Served(w) == {i \in 1..Len(dequeue_log) : dequeue_log[i].worker = w}

\* C20: a worker goes NotStarted, Starting, Running, ShuttingDown, Stopped
\* in that order, one state at a time (on_shutdown, asked for by the flag,
\* leading from Running to Stopped); it is in the loop of run, holds a task
\* or has dequeued or sent an RPC only with its client connected; and once
\* stopped it stays stopped, dequeues nothing and sends no RPC.
C20_WorkerLifecycleOrder ==
    /\ [](\A w \in Workers :
            (InLoop(w) \/ current[w] # 0 \/ Served(w) # {}
             \/ rpc_log[w] # <<>> \/ wpc[w] = "stopped")
            => client_stub[w])
    /\ [][\A w \in Workers :
            /\ \/ WorkerState(w)' = WorkerState(w)
               \/ WorkerState(w) = 0 /\ WorkerState(w)' = 1
               \/ WorkerState(w) = 1 /\ WorkerState(w)' = 2
               \/ WorkerState(w) = 2 /\ WorkerState(w)' = 4
                  /\ should_shutdown[w]
            /\ wpc[w] = "stopped"
               => /\ wpc'[w] = "stopped"
                  /\ rpc_log'[w] = rpc_log[w]
                  /\ current'[w] = current[w]
                  /\ Served(w)' = Served(w)]_vars

\* A worker has served a task and then stopped on the shutdown flag.
C20_Witness ==
    \E w \in Workers : wpc[w] = "stopped" /\ rpc_log[w] # <<>>

\* C21: on_run makes at most 10 connection attempts, returns at the first
\* attempt that yields a stub, keeping that stub, and raises RendererError
\* exactly when all 10 attempts fail.
C21_StartupTerminates ==
    (call.fn = "on_run") =>
        LET succeeded == {k \in 1..ConnectAttempts : call.outcomes[k]} IN
        /\ call.out.attempts <= ConnectAttempts
        /\ call.out.raised <=> succeeded = {}
        /\ ~call.out.raised
           => /\ call.out.stub \in succeeded
              /\ \A k \in succeeded : call.out.stub <= k
              /\ call.out.attempts = call.out.stub

\* The last of the 10 attempts is the first that succeeds.
C21_Witness ==
    /\ call.fn = "on_run"
    /\ call.out.stub = ConnectAttempts
    /\ ~call.out.raised

\* The one-step retry loop of the pool model agrees with the loop run
\* attempt by attempt.
ConnectLoopAgrees ==
    (call.fn = "on_run") =>
        LET succeeded == {k \in 1..ConnectAttempts : call.outcomes[k]}
            first_ok == IF succeeded = {} THEN ConnectAttempts
                        ELSE (CHOOSE k \in succeeded :
                                  \A m \in succeeded : k <= m) - 1
        IN  /\ ConnectLoop(first_ok).connected = ~call.out.raised
            /\ ConnectLoop(first_ok).attempts = call.out.attempts

\* shutdown()'s join on worker w has returned.
Joined(w) ==
    \/ pool.pc = "returned"
    \/ pool.pc = "joining" /\ pool.i > w

\* C22: a worker does not abandon a task at shutdown: once the pool's join
\* on a worker has returned, every task the worker dequeued has its result
\* on the destination, and the render server the worker started has been
\* terminated by its on_shutdown.
C22_InFlightTaskFinished ==
    \A w \in Workers :
        (Joined(w) /\ client_stub[w]) =>
            /\ \A i \in Served(w) : EntriesFor(dequeue_log[i].task) # {}
            /\ server_process[w] \in {"none", "terminated"}

\* The same for the workers whose run() returned, rather than ended on an
\* exception of process().
C22_HoldsWhenRunReturns ==
    \A w \in Workers :
        (Joined(w) /\ wpc[w] = "stopped") =>
            /\ \A i \in Served(w) : EntriesFor(dequeue_log[i].task) # {}
            /\ server_process[w] \in {"none", "terminated"}

\* shutdown() has been called and has not returned.
InShutdown == pool.pc \in {"signalling", "joining"}

\* C23: shutdown() returns: once it has been called its joins all return,
\* whether or not tasks are left on the input queue; and a worker that
\* reaches the test of the flag with the flag set goes on to on_shutdown
\* and stops, without another poll of the queue.
C23_ShutdownReturns ==
    /\ InShutdown ~> (pool.pc = "returned")
    /\ [][\A w \in Workers :
            (wpc[w] = "check" /\ should_shutdown[w] /\ wpc'[w] # wpc[w])
            => wpc'[w] = "stopped"]_vars

\* shutdown() has returned with a task left on the input queue.
C23_Witness ==
    /\ pool.pc = "returned"
    /\ input_queue # <<>>
    /\ \A w \in Workers : wpc[w] = "stopped"

\* C24: no worker dequeues a task whose stamp is lower than the version the
\* worker has applied at that moment.
C24_NoVersionSkew ==
    \A i \in 1..Len(dequeue_log) :
        tasks[dequeue_log[i].task].stamp >= dequeue_log[i].applied

\* No update() call is in progress: the dispatcher's version is v.
UpdatesStopped == \A c \in Callers : ~InUpdate(c)

\* The last task worker w took off the queue (0: none yet).
LastServed(w) ==
    IF Served(w) = {} THEN 0
    ELSE dequeue_log[CHOOSE i \in Served(w) :
                         \A j \in Served(w) : j <= i].task

\* Worker w is past the test of the stamp for the task it took last.
PastStampTest(w) ==
    wpc[w] \in {"render", "deliver", "check", "poll", "stopped"}

\* Every stamp still on its way to a worker is the dispatcher's version: the
\* stamps read by callers about to submit, and those of the tasks queued.
NoStaleStamp ==
    /\ \A c \in Callers :
          caller[c].pc \in {"render_config", "render_put"}
          => caller[c].stamp = renderer_config_stamp
    /\ \A i \in 1..Len(input_queue) :
          tasks[input_queue[i]].stamp = renderer_config_stamp
    /\ \A w \in Workers :
          (current[w] # 0 /\ wpc[w] # "crashed")
          => tasks[current[w]].stamp = renderer_config_stamp

RpcFailed(w) == wpc[w] = "crashed" /\ client_stub[w]

\* C26: a worker whose RPC failed stays dead: it dequeues nothing more,
\* sends no RPC and makes no new connection; the task it held is not on the
\* input queue and has been dequeued once, by that worker only; and another
\* worker waiting at the poll can still take the next task.
C26_FailedWorkerStaysDead ==
    /\ [](\A w \in Workers :
            RpcFailed(w) =>
                /\ ~InQueue(current[w])
                /\ Cardinality(Dequeues(current[w])) = 1
                /\ EntriesFor(current[w]) = {}
                /\ \A w2 \in Workers \ {w} :
                      (wpc[w2] = "poll" /\ input_queue # <<>>)
                      => ENABLED Dequeue(w2))
    /\ [][\A w \in Workers :
            RpcFailed(w) =>
                /\ RpcFailed(w)'
                /\ Served(w)' = Served(w)
                /\ rpc_log'[w] = rpc_log[w]
                /\ current'[w] = current[w]
                /\ server_process'[w] = server_process[w]]_vars

\* One worker's RPC has failed and another worker has since taken a task
\* and delivered its result.
C26_Witness ==
    \E w, w2 \in Workers :
        /\ w # w2
        /\ RpcFailed(w)
        /\ \E i \in Served(w), j \in Served(w2) :
              i < j /\ EntriesFor(dequeue_log[j].task) # {}

\* Worker w is inside client_stub.RenderBatch, which has not returned.
InRenderBatch(w) == wpc[w] = "render"

\* C27: while a worker is inside RenderBatch, however long, each step of
\* render_batch_async can be taken by a caller, and every other worker can
\* take its next step: dequeue a task when one is queued, send its RPCs,
\* deliver its result.
C27_BlockedWorkerBlocksOnlyItself ==
    \A w \in Workers :
        InRenderBatch(w) =>
            /\ \A c \in Callers :
                  /\ (caller[c].pc = "idle" /\ CallsLeft)
                     => ENABLED RenderReadStamp(c)
                  /\ caller[c].pc = "render_config" => ENABLED RenderReadConfig(c)
                  /\ caller[c].pc = "render_put" => ENABLED RenderPut(c)
            /\ \A w2 \in Workers \ {w} :
                  /\ (wpc[w2] = "poll" /\ input_queue # <<>>)
                     => ENABLED Dequeue(w2)
                  /\ wpc[w2] = "process"
                     => ENABLED (ProcessUpdate(w2) \/ ProcessNoUpdate(w2))
                  /\ wpc[w2] = "render" => ENABLED ProcessRender(w2)
                  /\ wpc[w2] = "deliver" => ENABLED Deliver(w2)

\* While one worker is inside RenderBatch, a task submitted after the worker
\* took its own has been served by another worker and its result delivered.
C27_Witness ==
    \E w, w2 \in Workers :
        /\ w # w2
        /\ InRenderBatch(w)
        /\ \E j \in Served(w2) :
              /\ dequeue_log[j].task > current[w]
              /\ EntriesFor(dequeue_log[j].task) # {}

\* This step is a step of caller c's update().
UpdateStepOf(c) ==
    \/ caller[c].pc = "idle" /\ caller'[c].pc = "update_stamp"
    \/ caller[c].pc = "update_stamp" /\ caller'[c].pc = "update_config"
    \/ caller[c].pc = "update_config" /\ caller'[c].pc = "idle"

\* C28: a step of update() changes nothing but the dispatcher's stamp and
\* configuration (and the calling thread's own position): the submitted
\* tasks with their stamps and values, the input queue, every destination
\* queue, every worker's applied stamp and everything else a worker holds
\* stay as they are; and update() waits for no worker: once begun, its next
\* step can always be taken.
C28_UpdateTouchesOnlyDispatcher ==
    /\ [](\A c \in Callers :
            /\ caller[c].pc = "update_stamp" => ENABLED UpdateWriteStamp(c)
            /\ caller[c].pc = "update_config" => ENABLED UpdateWriteConfig(c))
    /\ [][\A c \in Callers :
            UpdateStepOf(c) =>
                /\ UNCHANGED <<queue_vars, worker_vars, pool_vars>>
                /\ \A c2 \in Callers \ {c} : caller'[c2] = caller[c2]]_vars

\* update() has returned having published stamp 1 while a task stamped 0
\* with value 0 is still in the input queue and a started worker still has
\* stamp 0 applied.
C28_Witness ==
    /\ max_returned >= 1
    /\ renderer_config_stamp >= 1
    /\ \A c \in Callers : caller[c].pc = "idle"
    /\ \E i \in TaskIds :
          InQueue(i) /\ tasks[i].stamp = 0 /\ tasks[i].config = 0
    /\ \E w \in Workers : wpc[w] = "poll" /\ worker_stamp[w] = 0

\* C29: once a task has been stamped with version k and a value, whatever a
\* worker sends in an Update for version k is that value: the same
\* configuration object, carrying the edits it carried when the task was
\* stamped.
C29_PublishedValueImmutable ==
    \A w \in Workers : \A j \in 1..Len(rpc_log[w]) :
        LET r == rpc_log[w][j] IN
        r.op = "Update" =>
            \A t \in TaskIds :
                tasks[t].stamp = r.version =>
                    /\ r.config = tasks[t].config
                    /\ r.edits = stamped_edits[t]

\* Threads now running run() on worker w.
LiveThreads(w) ==
    (IF wpc[w] \in {"not_started", "stopped", "crashed"} THEN 0 ELSE 1)
    + (IF extra_thread[w] \in {"none", "stopped", "crashed"} THEN 0 ELSE 1)

\* C30: a worker is run by at most one thread at a time, has called Popen
\* at most once, and no render-server process is left running with its
\* handle held by no worker.
C30_OneThreadOneProcess ==
    \A w \in Workers :
        /\ LiveThreads(w) <= 1
        /\ popens[w] <= 1
        /\ orphaned[w] = 0

\* The process part of C30 alone.
C30_OneProcess == \A w \in Workers : popens[w] <= 1 /\ orphaned[w] = 0

\* ---- _build_render_batch_request ----------------------------------------

HasSeed == "seed" \in DOMAIN call.workload
HasSeeds == "seeds" \in DOMAIN call.workload

\* The parts of C31 about a workload with exactly one of the two keys (and,
\* with 'seeds', a seed for every qpos vector): the seed mode follows the
\* key, and the entries are the qpos vectors in order.
C31_HoldsForOneKey ==
    (call.fn = "build") =>
        LET w == call.workload
            out == call.out
            n == Len(w["qpos"])
        IN  /\ (HasSeed /\ ~HasSeeds) =>
                  /\ ~out.raised
                  /\ ~out.request.use_entry_seeds
                  /\ \A i \in 1..n :
                        "seed" \notin DOMAIN out.request.entries[i]
            /\ (HasSeeds /\ ~HasSeed /\ Len(w["seeds"]) >= n) =>
                  /\ ~out.raised
                  /\ out.request.use_entry_seeds
                  /\ \A i \in 1..n :
                        out.request.entries[i].seed = w["seeds"][i]
            /\ ~out.raised =>
                  /\ Len(out.request.entries) = n
                  /\ \A i \in 1..n :
                        out.request.entries[i].qpos = w["qpos"][i]

\* C31: a workload with only 'seed' yields use_entry_seeds false and no
\* entry seed; one with only 'seeds' yields use_entry_seeds true and entry
\* i carrying seeds[i]; the request has one entry per qpos vector, in
\* order; and a workload with both keys, or with neither, is rejected.
C31_SeedModeFollowsWorkload ==
    /\ C31_HoldsForOneKey
    /\ (call.fn = "build" /\ (HasSeed <=> HasSeeds)) => call.out.raised

\* C32: for a batch seed of either sign and any size, the batch_seed of the
\* request lies in 0 .. 2^31 - 1 and is congruent to the seed modulo 2^31:
\* it is the lowest base-2^31 digit of a non-negative seed, and for a
\* negative seed it and the lowest digit add up to 0 or to 2^31.
C32_BatchSeedInInt32Range ==
    (call.fn = "build" /\ HasSeed /\ ~call.out.raised) =>
        LET seed == call.workload["seed"]
            low == IF seed.digits = <<>> THEN 0 ELSE seed.digits[1]
            batch_seed == call.out.request.batch_seed
        IN  /\ batch_seed \in 0..MaxInt32
            /\ ~seed.neg => batch_seed = low
            /\ seed.neg => \/ (batch_seed = 0 /\ low = 0)
                            \/ (low > 0 /\ batch_seed - 1 = MaxInt32 - low)

\* A negative seed beyond 32 bits, -(1 + k * 2^31) with k > 0, has given
\* the batch_seed 2^31 - 1.
C32_Witness ==
    /\ call.fn = "build"
    /\ HasSeed
    /\ ~call.out.raised
    /\ call.workload["seed"].neg
    /\ Len(call.workload["seed"].digits) = MaxDigits
    /\ call.workload["seed"].digits[1] = 1
    /\ call.workload["seed"].digits[MaxDigits] > 0
    /\ call.out.request.batch_seed = MaxInt32

\* ---- RemoteRenderer.execute ---------------------------------------------

\* This step is caller c's call of execute(): the only call that is not
\* update() or a render call.
ExecuteStepOf(c) ==
    /\ caller[c].pc = "idle"
    /\ caller'[c].pc \notin {"idle", "update_stamp", "render_config"}

\* C33: a call of RemoteRenderer.execute ends in AssertionError and changes
\* nothing: no task is added, the input queue and everything the dispatcher
\* and the workers hold stay as they are. So every task a worker holds was
\* built by render_batch_async: it carries a stamp the dispatcher has had
\* and a destination.
C33_ExecuteAlwaysFails ==
    /\ [][\A c \in Callers :
            ExecuteStepOf(c) =>
                /\ caller'[c].pc = "assertion_error"
                /\ UNCHANGED <<queue_vars, worker_vars, pool_vars, ext_vars,
                               renderer_config_stamp, renderer_config,
                               published>>]_vars
    /\ [](\A w \in Workers :
            current[w] # 0 =>
                /\ current[w] \in TaskIds
                /\ tasks[current[w]].stamp \in 0..renderer_config_stamp
                /\ tasks[current[w]].destination \in Dests)

\* execute() has raised in the caller's thread after a task submitted by
\* render_batch_async was queued, and a worker has delivered that task.
C33_Witness ==
    /\ \E c \in Callers : caller[c].pc = "assertion_error"
    /\ \E t \in TaskIds : EntriesFor(t) # {}

\* ---- order of the input queue -------------------------------------------

\* The workers that have taken a task off the input queue.
WorkersUsed == {dequeue_log[i].worker : i \in 1..Len(dequeue_log)}

\* C34: the input queue is first in, first out. Tasks are numbered in the
\* order they were put, so the i-th dequeue, whichever worker makes it,
\* takes task i, and the queue holds the tasks not yet taken, in order.
\* When a single worker has done all the dequeues, the results on each
\* destination are in submission order.
C34_FifoInputQueue ==
    /\ \A i \in 1..Len(dequeue_log) : dequeue_log[i].task = i
    /\ Len(input_queue) = Len(tasks) - Len(dequeue_log)
    /\ \A k \in 1..Len(input_queue) : input_queue[k] = Len(dequeue_log) + k
    /\ Cardinality(WorkersUsed) <= 1 =>
          \A d \in Dests : \A i, j \in 1..Len(dest_queue[d]) :
              i < j => dest_queue[d][i].task < dest_queue[d][j].task

\* Two tasks were queued together and then taken, in the order they were
\* put, by one worker, and both results are on the destination.
C34_Witness ==
    /\ Len(dequeue_log) >= 2
    /\ Cardinality(WorkersUsed) = 1
    /\ dequeue_log[1].applied = dequeue_log[2].applied
    /\ \E d \in Dests : Len(dest_queue[d]) >= 2

\* ---- a worker after its flag is set --------------------------------------

\* Worker w is past the get of the current pass of its loop, or done.
PastPoll(w) ==
    wpc[w] \in {"process", "render", "deliver", "check", "stopped", "crashed"}

\* C35: a worker's flag, once set, stays set; a worker takes a task only
\* from the poll, one per visit; and a worker whose flag is set never comes
\* back to the poll once past it: from the test of the flag it goes to
\* on_shutdown and stops. So after the flag is set the worker dequeues at
\* most one more task, the one of the poll it was in or about to enter,
\* whatever is left on the input queue.
C35_AtMostOneTaskAfterFlag ==
    [][\A w \in Workers :
          /\ Served(w)' # Served(w) =>
                /\ wpc[w] = "poll"
                /\ PastPoll(w)'
                /\ Cardinality(Served(w)') = Cardinality(Served(w)) + 1
          /\ should_shutdown[w] =>
                /\ should_shutdown'[w]
                /\ PastPoll(w) => PastPoll(w)'
                /\ (wpc[w] = "check" /\ wpc'[w] # "check")
                   => /\ wpc'[w] = "stopped"
                      /\ input_queue' = input_queue]_vars

\* A worker served a task and stopped on its flag with a task still on
\* the input queue.
C35_Witness ==
    \E w \in Workers :
        /\ wpc[w] = "stopped"
        /\ Served(w) # {}
        /\ \A i \in Served(w) : EntriesFor(dequeue_log[i].task) # {}
        /\ input_queue # <<>>

\* ---- task_done -----------------------------------------------------------

RECURSIVE SumTo(_, _)
SumTo(counts, n) == IF n = 0 THEN 0 ELSE counts[n] + SumTo(counts, n - 1)

\* Queue.unfinished_tasks of the input queue: one more for every put, one
\* less for every task_done().
UnfinishedTasks == Len(tasks) - SumTo(task_done, Len(task_done))

\* Tasks with no result on their destination.
Undelivered == {t \in TaskIds : EntriesFor(t) = {}}

\* The safety part of C36: a task is acknowledged at most once, only when
\* its result is on its destination, and the count of unacknowledged tasks
\* is at least the number of tasks without a result.
C36_AcknowledgedAfterPut ==
    /\ \A t \in TaskIds : task_done[t] <= 1
    /\ \A t \in TaskIds : task_done[t] >= 1 => EntriesFor(t) # {}
    /\ UnfinishedTasks >= Cardinality(Undelivered)

\* C36: a worker acknowledges each task it dequeued exactly once, and only
\* after the task's result is on its destination: a task is never
\* acknowledged twice nor before its result is put, every dequeued task
\* that its worker no longer works on (the worker has moved on, or its
\* thread has ended) has been acknowledged, and the count of
\* unacknowledged tasks is never below the number of tasks without a result.
C36_TaskDoneOncePerDequeue ==
    /\ C36_AcknowledgedAfterPut
    /\ \A i \in 1..Len(dequeue_log) :
          LET w == dequeue_log[i].worker
              t == dequeue_log[i].task
          IN  (current[w] # t \/ ThreadDead(w)) => task_done[t] = 1

=============================================================================
